---- MODULE Spec2Model ----
(***************************************************************************)
(* Model of the autonomous-test-gen scaffolding:                           *)
(*   - the CI workflow (.github/workflows/ci.yml): trigger filter, the     *)
(*     backend and frontend gate jobs, their service containers, and the   *)
(*     deploy job;                                                         *)
(*   - the MongoDB initializer (docker/init-scripts/mongo/01-init.js) and  *)
(*     inserts into the collection it prepares;                            *)
(*   - the placeholder App component and the queries its tests use.        *)
(***************************************************************************)
EXTENDS Integers, Sequences, FiniteSets, TLC

VARIABLES
    event,      \* the triggering event: [name, branch, sha]
    triggered,  \* "pending" | "yes" | "no": result of the workflow's `on:` filter
    status,     \* job -> "waiting" | "init" | "running" | "success" | "failure" | "skipped"
    jlog,       \* job -> sequence of [i, outcome]: the units executed, in order
    pos,        \* job -> index of the unit it runs next (0: none)
    svcUp,      \* service -> whether the container accepts connections
    health,     \* service -> "none" | "starting" | "healthy" | "unhealthy" (docker health status)
    probeFails, \* service -> consecutive failed health probes
    measured,   \* job -> what its test run measured (NoMeasure before)
    files,      \* job -> set of paths in the job's workspace
    artifacts,  \* set of [name, files] uploaded in this run
    release,    \* NoRelease or the release created
    mongoPc,    \* position of the Mongo initializer
    users,      \* users created in MongoDB
    collections,\* collections existing in test_gen_db
    indexes,    \* indexes on test_patterns
    docs,       \* documents of test_patterns
    pending,    \* client -> insert in flight (NoDoc when none)
    oplog,      \* completed inserts: sequence of [client, doc, result]
    nextId,     \* next _id handed out
    mounted     \* React roots mounted in document.body: sequence of [props, tree]

ciVars == <<event, triggered, status, jlog, pos, svcUp, health, probeFails,
            measured, files, artifacts, release>>
mongoVars == <<mongoPc, users, collections, indexes, docs, pending, oplog, nextId>>
uiVars == <<mounted>>
vars == <<event, triggered, status, jlog, pos, svcUp, health, probeFails,
          measured, files, artifacts, release,
          mongoPc, users, collections, indexes, docs, pending, oplog, nextId,
          mounted>>

Min(S) == CHOOSE x \in S : \A y \in S : x <= y

(***************************************************************************)
(* CI workflow                                                             *)
(***************************************************************************)

Backend == "backend-tests"
Frontend == "frontend-tests"
Deploy == "deploy"
Jobs == {Backend, Frontend, Deploy}
Gates == {Backend, Frontend}

\* Events a repository can receive that the workflow's filter looks at.
EventNames == {"push", "pull_request"}
Branches == {"main", "feature"}
Shas == {"sha1"}
Events == [name : EventNames, branch : Branches, sha : Shas]

\* on: push: branches [main]; pull_request: branches [main] (the base branch)
OnFilter(ev) ==
    \/ ev.name = "push" /\ ev.branch \in {"main"}
    \/ ev.name = "pull_request" /\ ev.branch \in {"main"}

\* github.ref: the pushed branch for a push, the merge ref for a pull request
GithubRef(ev) ==
    IF ev.name = "push" THEN <<"refs", "heads", ev.branch>>
    ELSE <<"refs", "pull", "merge">>

IsTagRef(ref) == ref[2] = "tags"

\* jobs.<job>.needs
DeployNeedsBackendOnly(job) == IF job = Deploy THEN {Backend} ELSE {}
FrontendNeedsBackend(job) ==
    CASE job = Deploy -> {Backend, Frontend}
      [] job = Frontend -> {Backend}
      [] OTHER -> {}
JobNeeds(job) == IF job = Deploy THEN {Backend, Frontend} ELSE {}

\* jobs.<job>.if (no status function in it, so success() of the needs is implied)
JobIf(job, ev) ==
    IF job = Deploy
    THEN GithubRef(ev) = <<"refs", "heads", "main">> /\ ev.name = "push"
    ELSE TRUE

\* The units of a job: each command of each step, in file order.  A `run:`
\* step is executed by `bash -e`, so a failing command ends its step.
BackendUnits == <<
    [step |-> "checkout",                         cmd |-> "actions/checkout"],
    [step |-> "Set up Python",                    cmd |-> "actions/setup-python"],
    [step |-> "Install dependencies",             cmd |-> "pip install --upgrade pip"],
    [step |-> "Install dependencies",             cmd |-> "pip install -r requirements.txt"],
    [step |-> "Install dependencies",             cmd |-> "pip install coverage-badge"],
    [step |-> "Check dependency vulnerabilities", cmd |-> "pip install safety"],
    [step |-> "Check dependency vulnerabilities", cmd |-> "safety check"],
    [step |-> "Run linting and type checking",    cmd |-> "flake8"],
    [step |-> "Run linting and type checking",    cmd |-> "mypy"],
    [step |-> "Run linting and type checking",    cmd |-> "black --check"],
    [step |-> "Run tests with coverage",          cmd |-> "pytest"],
    [step |-> "Run tests with coverage",          cmd |-> "coverage-badge"],
    [step |-> "Archive code coverage results",    cmd |-> "actions/upload-artifact"],
    [step |-> "Upload coverage to Codecov",       cmd |-> "codecov/codecov-action"] >>

FrontendUnits == <<
    [step |-> "checkout",                                cmd |-> "actions/checkout"],
    [step |-> "Set up Node.js",                          cmd |-> "actions/setup-node"],
    [step |-> "Install dependencies",                    cmd |-> "npm ci"],
    [step |-> "Install dependencies",                    cmd |-> "npm install -g codecov"],
    [step |-> "Check for security vulnerabilities",      cmd |-> "npm audit"],
    [step |-> "Run linting and formatting checks",       cmd |-> "npm run lint"],
    [step |-> "Run linting and formatting checks",       cmd |-> "npm run prettier:check"],
    [step |-> "Run linting and formatting checks",       cmd |-> "npm run type-check"],
    [step |-> "Run tests with coverage",                 cmd |-> "npm test"],
    [step |-> "Archive frontend coverage results",       cmd |-> "actions/upload-artifact"],
    [step |-> "Upload frontend coverage to Codecov",     cmd |-> "codecov/codecov-action"],
    [step |-> "Build frontend",                          cmd |-> "npm run build"] >>

DeployUnits == <<
    [step |-> "checkout",                            cmd |-> "actions/checkout"],
    [step |-> "Download all workflow run artifacts", cmd |-> "actions/download-artifact"],
    [step |-> "Generate combined coverage report",   cmd |-> "echo > coverage-report.md"],
    [step |-> "Create GitHub Release",               cmd |-> "softprops/action-gh-release"] >>

Units(job) ==
    CASE job = Backend -> BackendUnits
      [] job = Frontend -> FrontendUnits
      [] job = Deploy -> DeployUnits

\* steps[*].if: absent everywhere in the gates (default success()); written
\* out as success() on the release step.
BackendStepIfTestsAlways(step) ==
    IF step = "Run tests with coverage" THEN "always()" ELSE "success()"
BackendStepIf(step) == "success()"

FrontendStepIfBuildAlways(step) ==
    IF step = "Build frontend" THEN "always()" ELSE "success()"
FrontendStepIf(step) == "success()"

DeployStepIf(step) == "success()"

StepIf(job, step) ==
    CASE job = Backend -> BackendStepIf(step)
      [] job = Frontend -> FrontendStepIf(step)
      [] job = Deploy -> DeployStepIf(step)

Failed(log) == \E k \in 1..Len(log) : log[k].outcome = "failed"
Conclusion(log) == IF Failed(log) THEN "failure" ELSE "success"
LastIdx(log) == IF log = <<>> THEN 0 ELSE log[Len(log)].i

\* Whether unit j of the job runs, given what has run so far.
UnitRuns(job, j, log) ==
    LET u == Units(job)[j]
        sameStepFailed ==
            \E k \in 1..Len(log) :
                /\ Units(job)[log[k].i].step = u.step
                /\ log[k].outcome = "failed"
        earlierStepFailed ==
            \E k \in 1..Len(log) :
                /\ Units(job)[log[k].i].step # u.step
                /\ log[k].outcome = "failed"
    IN  /\ ~sameStepFailed
        /\ (StepIf(job, u.step) = "success()" => ~earlierStepFailed)

\* Index of the next unit to run, 0 when the job has nothing left to run.
NextUnit(job, log) ==
    LET c == {j \in (LastIdx(log) + 1)..Len(Units(job)) : UnitRuns(job, j, log)}
    IN  IF c = {} THEN 0 ELSE Min(c)

NoUnit == [step |-> "none", cmd |-> "none"]
Cur(job) ==
    IF status[job] = "running" /\ pos[job] # 0
    THEN Units(job)[pos[job]]
    ELSE NoUnit

\* Record the outcome of the job's current unit and move on.
Exec(job, outcome) ==
    LET log2 == Append(jlog[job], [i |-> pos[job], outcome |-> outcome])
        next == NextUnit(job, log2)
    IN  /\ jlog' = [jlog EXCEPT ![job] = log2]
        /\ pos' = [pos EXCEPT ![job] = next]
        /\ status' = [status EXCEPT ![job] =
                        IF next = 0 THEN Conclusion(log2) ELSE "running"]

Outcomes == {"ok", "failed"}

\* ---- service containers of the backend job --------------------------------
Services == {"postgres", "mongodb"}
NoHealthCmd == "none"
HealthRetries == 5

\* jobs.backend-tests.services.<svc>.options
ServiceHealthCmd(svc) ==
    IF svc = "postgres" THEN "pg_isready" ELSE NoHealthCmd

JobServices(job) == IF job = Backend THEN Services ELSE {}

\* ---- coverage --------------------------------------------------------------

\* Backend coverage in tenths of a percent: 89.9% is 899.
BackendCovSamples == {895, 899, 900, 905}
CovFailUnder == 90
CovFailsAtThreshold(cov) == cov <= CovFailUnder * 10
\* pytest --cov-fail-under=90: fail when the total is below the threshold
CovFails(cov) == cov < CovFailUnder * 10

Metrics == {"branches", "functions", "lines", "statements"}
\* What a job's test run has measured before it ran: nothing (coverage -1).
NoMeasure(job) ==
    [testsPass |-> FALSE,
     cov |-> IF job = "backend-tests" THEN -1 ELSE [m \in Metrics |-> -1]]
FrontendCovSamples == {79, 89, 90}
\* package.json jest.coverageThreshold.global
ManifestCoverageThreshold ==
    [branches |-> 80, functions |-> 80, lines |-> 80, statements |-> 80]
\* --coverageThreshold='{"global":{...}}' on the CI command line
CliCoverageThreshold ==
    [branches |-> 90, functions |-> 90, lines |-> 90, statements |-> 90]
\* The options `npm test -- ...` hands to jest.
JestArgv == [coverage |-> TRUE, watchAll |-> FALSE,
             coverageThreshold |-> CliCoverageThreshold]
\* jest: a command-line option overrides the configuration's value
EffectiveFromManifest == ManifestCoverageThreshold
EffectiveCoverageThreshold ==
    IF "coverageThreshold" \in DOMAIN JestArgv
    THEN JestArgv.coverageThreshold
    ELSE ManifestCoverageThreshold
\* jest fails the run when a metric is below its threshold
JestCoverageFails(cov) ==
    \E m \in Metrics : cov[m] < EffectiveCoverageThreshold[m]

\* ---- files, artifacts, release --------------------------------------------
NoRelease == [name |-> <<>>, tag |-> <<>>, files |-> {}, body |-> <<>>]
NoTag == <<>>

\* upload-artifact `path:` lists (files of the workspace that exist are taken)
ArtifactName(job) ==
    IF job = Backend THEN "backend-coverage-report" ELSE "frontend-coverage-report"
ArtifactPaths(job) ==
    IF job = Backend
    THEN {<<"coverage_html">>, <<"coverage.xml">>, <<"coverage-badge.svg">>}
    ELSE {<<"frontend", "coverage">>}

\* download-artifact without `name`: every artifact, each into a directory
\* named after it
Downloaded(arts) ==
    UNION { { <<a.name>> \o f : f \in a.files } : a \in arts }

\* the five echo lines of "Generate combined coverage report"
ReportLines == <<
    [kind |-> "h2", text |-> "Coverage Report", src |-> <<>>],
    [kind |-> "h3", text |-> "Backend Coverage", src |-> <<>>],
    [kind |-> "img", text |-> "Backend Coverage",
     src |-> <<"backend-coverage-report", "coverage-badge.svg">>],
    [kind |-> "h3", text |-> "Frontend Coverage", src |-> <<>>],
    [kind |-> "p", text |-> "Coverage information available in artifacts", src |-> <<>>] >>

\* softprops/action-gh-release `with:`
ReleaseInputs(ev) ==
    [files |-> {<<"coverage-report.md">>,
                <<"backend-coverage-report", "coverage-badge.svg">>},
     name |-> <<"Release", ev.sha>>,
     body_path |-> <<"coverage-report.md">>,
     draft |-> FALSE,
     prerelease |-> FALSE]

\* The tag the release action publishes under: the tag_name input, else the
\* ref when it is a tag; a non-draft release without one is refused.
ReleaseTag(ev) ==
    IF "tag_name" \in DOMAIN ReleaseInputs(ev) THEN <<"input tag_name">>
    ELSE IF IsTagRef(GithubRef(ev)) THEN GithubRef(ev)
    ELSE NoTag

ReleaseRefused(ev) == ReleaseTag(ev) = NoTag /\ ~ReleaseInputs(ev).draft

CIInit ==
    /\ event \in Events
    /\ triggered = "pending"
    /\ status = [j \in Jobs |-> "waiting"]
    /\ jlog = [j \in Jobs |-> <<>>]
    /\ pos = [j \in Jobs |-> 0]
    /\ svcUp = [s \in Services |-> FALSE]
    /\ health = [s \in Services |-> "none"]
    /\ probeFails = [s \in Services |-> 0]
    /\ measured = [j \in Gates |-> NoMeasure(j)]
    /\ files = [j \in Jobs |-> {}]
    /\ artifacts = {}
    /\ release = NoRelease

\* The event is matched against `on:`.
Trigger ==
    /\ triggered = "pending"
    /\ triggered' = IF OnFilter(event) THEN "yes" ELSE "no"
    /\ UNCHANGED <<event, status, jlog, pos, svcUp, health, probeFails, measured,
                   files, artifacts, release>>
    /\ UNCHANGED <<mongoVars, uiVars>>

Concluded(job) == status[job] \in {"success", "failure", "skipped"}

\* A job is picked up once the jobs it needs have concluded.
StartJob(job) ==
    /\ triggered = "yes"
    /\ status[job] = "waiting"
    /\ \A n \in JobNeeds(job) : Concluded(n)
    /\ IF (\A n \in JobNeeds(job) : status[n] = "success") /\ JobIf(job, event)
       THEN /\ status' = [status EXCEPT ![job] =
                            IF JobServices(job) = {} THEN "running" ELSE "init"]
            /\ health' = [s \in Services |->
                            IF s \in JobServices(job) /\ ServiceHealthCmd(s) # NoHealthCmd
                            THEN "starting" ELSE health[s]]
       ELSE /\ status' = [status EXCEPT ![job] = "skipped"]
            /\ UNCHANGED health
    /\ pos' = [pos EXCEPT ![job] = NextUnit(job, <<>>)]
    /\ UNCHANGED <<event, triggered, jlog, svcUp, probeFails, measured,
                   files, artifacts, release>>
    /\ UNCHANGED <<mongoVars, uiVars>>

\* The datastore inside a started service container becomes reachable.
ServiceComesUp(svc) ==
    /\ status[Backend] \in {"init", "running"}
    /\ ~svcUp[svc]
    /\ svcUp' = [svcUp EXCEPT ![svc] = TRUE]
    /\ UNCHANGED <<event, triggered, status, jlog, pos, health, probeFails, measured,
                   files, artifacts, release>>
    /\ UNCHANGED <<mongoVars, uiVars>>

\* One run of --health-cmd: healthy on success, unhealthy after
\* --health-retries consecutive failures.
Probe(svc) ==
    /\ health[svc] = "starting"
    /\ IF svcUp[svc]
       THEN /\ health' = [health EXCEPT ![svc] = "healthy"]
            /\ probeFails' = [probeFails EXCEPT ![svc] = 0]
       ELSE /\ probeFails' = [probeFails EXCEPT ![svc] = @ + 1]
            /\ health' = [health EXCEPT ![svc] =
                            IF probeFails[svc] + 1 >= HealthRetries
                            THEN "unhealthy" ELSE "starting"]
    /\ UNCHANGED <<event, triggered, status, jlog, pos, svcUp, measured,
                   files, artifacts, release>>
    /\ UNCHANGED <<mongoVars, uiVars>>

\* "Initialize containers": the runner waits for every service that has a
\* health check; the job fails when one ends unhealthy.
InitContainers(job) ==
    /\ status[job] = "init"
    /\ \A s \in JobServices(job) : health[s] # "starting"
    /\ status' = [status EXCEPT ![job] =
                    IF \E s \in JobServices(job) : health[s] = "unhealthy"
                    THEN "failure" ELSE "running"]
    /\ UNCHANGED <<event, triggered, jlog, pos, svcUp, health, probeFails, measured,
                   files, artifacts, release>>
    /\ UNCHANGED <<mongoVars, uiVars>>

EffectCmds == {"pytest", "coverage-badge", "actions/upload-artifact", "npm test",
               "npm run build", "actions/download-artifact",
               "echo > coverage-report.md", "softprops/action-gh-release"}

\* A tool whose only modelled effect is its exit status.
RunTool(job) ==
    /\ Cur(job) # NoUnit
    /\ Cur(job).cmd \notin EffectCmds
    /\ \E o \in Outcomes : Exec(job, o)
    /\ UNCHANGED <<event, triggered, svcUp, health, probeFails, measured,
                   files, artifacts, release>>
    /\ UNCHANGED <<mongoVars, uiVars>>

\* pytest --cov=src --cov-report=xml --cov-report=html --cov-fail-under=90 --cov-branch
RunPytest ==
    /\ Cur(Backend).cmd = "pytest"
    /\ \E pass \in BOOLEAN, cov \in BackendCovSamples :
        /\ measured' = [measured EXCEPT ![Backend] = [testsPass |-> pass, cov |-> cov]]
        /\ Exec(Backend, IF pass /\ ~CovFails(cov) THEN "ok" ELSE "failed")
    /\ files' = [files EXCEPT ![Backend] = @ \cup {<<"coverage.xml">>, <<"coverage_html">>}]
    /\ UNCHANGED <<event, triggered, svcUp, health, probeFails, artifacts, release>>
    /\ UNCHANGED <<mongoVars, uiVars>>

\* coverage-badge -o coverage-badge.svg -f
RunCoverageBadge ==
    /\ Cur(Backend).cmd = "coverage-badge"
    /\ \E o \in Outcomes :
        /\ Exec(Backend, o)
        /\ files' = [files EXCEPT ![Backend] =
                        IF o = "ok" THEN @ \cup {<<"coverage-badge.svg">>} ELSE @]
    /\ UNCHANGED <<event, triggered, svcUp, health, probeFails, measured,
                   artifacts, release>>
    /\ UNCHANGED <<mongoVars, uiVars>>

\* actions/upload-artifact@v3 in a gate job
UploadArtifact(job) ==
    /\ job \in Gates
    /\ Cur(job).cmd = "actions/upload-artifact"
    /\ \E o \in Outcomes :
        /\ Exec(job, o)
        /\ artifacts' =
             IF o = "ok"
             THEN artifacts \cup {[name |-> ArtifactName(job),
                                   files |-> files[job] \cap ArtifactPaths(job)]}
             ELSE artifacts
    /\ UNCHANGED <<event, triggered, svcUp, health, probeFails, measured,
                   files, release>>
    /\ UNCHANGED <<mongoVars, uiVars>>

\* npm test -- --coverage --watchAll=false ... --coverageThreshold=...
RunJest ==
    /\ Cur(Frontend).cmd = "npm test"
    /\ \E pass \in BOOLEAN, cov \in [Metrics -> FrontendCovSamples] :
        /\ measured' = [measured EXCEPT ![Frontend] = [testsPass |-> pass, cov |-> cov]]
        /\ Exec(Frontend, IF pass /\ ~JestCoverageFails(cov) THEN "ok" ELSE "failed")
    /\ files' = [files EXCEPT ![Frontend] = @ \cup {<<"frontend", "coverage">>}]
    /\ UNCHANGED <<event, triggered, svcUp, health, probeFails, artifacts, release>>
    /\ UNCHANGED <<mongoVars, uiVars>>

\* npm run build
BuildFrontend ==
    /\ Cur(Frontend).cmd = "npm run build"
    /\ \E o \in Outcomes :
        /\ Exec(Frontend, o)
        /\ files' = [files EXCEPT ![Frontend] =
                        IF o = "ok" THEN @ \cup {<<"frontend", "build">>} ELSE @]
    /\ UNCHANGED <<event, triggered, svcUp, health, probeFails, measured,
                   artifacts, release>>
    /\ UNCHANGED <<mongoVars, uiVars>>

\* actions/download-artifact@v3
DownloadArtifacts ==
    /\ Cur(Deploy).cmd = "actions/download-artifact"
    /\ \E o \in Outcomes :
        /\ Exec(Deploy, o)
        /\ files' = [files EXCEPT ![Deploy] =
                        IF o = "ok" THEN @ \cup Downloaded(artifacts) ELSE @]
    /\ UNCHANGED <<event, triggered, svcUp, health, probeFails, measured,
                   artifacts, release>>
    /\ UNCHANGED <<mongoVars, uiVars>>

\* echo ... > coverage-report.md; echo ... >> coverage-report.md
GenerateReport ==
    /\ Cur(Deploy).cmd = "echo > coverage-report.md"
    /\ Exec(Deploy, "ok")
    /\ files' = [files EXCEPT ![Deploy] = @ \cup {<<"coverage-report.md">>}]
    /\ UNCHANGED <<event, triggered, svcUp, health, probeFails, measured,
                   artifacts, release>>
    /\ UNCHANGED <<mongoVars, uiVars>>

\* softprops/action-gh-release@v1
CreateRelease ==
    /\ Cur(Deploy).cmd = "softprops/action-gh-release"
    /\ LET o == IF ReleaseRefused(event) THEN "failed" ELSE "ok" IN
        /\ Exec(Deploy, o)
        /\ release' =
             IF o = "ok"
             THEN [name |-> ReleaseInputs(event).name,
                   tag |-> ReleaseTag(event),
                   files |-> ReleaseInputs(event).files \cap files[Deploy],
                   body |-> ReportLines]
             ELSE release
    /\ UNCHANGED <<event, triggered, svcUp, health, probeFails, measured,
                   files, artifacts>>
    /\ UNCHANGED <<mongoVars, uiVars>>

CINext ==
    \/ Trigger
    \/ \E j \in Jobs : StartJob(j)
    \/ \E s \in Services : ServiceComesUp(s)
    \/ \E s \in Services : Probe(s)
    \/ \E j \in Jobs : InitContainers(j)
    \/ \E j \in Jobs : RunTool(j)
    \/ RunPytest
    \/ RunCoverageBadge
    \/ \E j \in Gates : UploadArtifact(j)
    \/ RunJest
    \/ BuildFrontend
    \/ DownloadArtifacts
    \/ GenerateReport
    \/ CreateRelease

(***************************************************************************)
(* MongoDB initializer and inserts                                         *)
(***************************************************************************)

NumClients == 2
MaxInserts == 3
Clients == 1..NumClients

\* Values of the pattern_name field; Null stands for a document without it
\* (an index stores a missing field as null).
Null == "null"
PatternNames == {"login", "logout", Null}
NoDoc == [pattern_name |-> "none"]

\* db.test_patterns.createIndex({ pattern_name: 1 }, { unique: true })
IndexKey == "pattern_name"
IndexOptionsNotUnique == [unique |-> FALSE]
IndexOptions == [unique |-> TRUE]

MongoInit ==
    /\ mongoPc = "createUser"
    /\ users = {}
    /\ collections = {}
    /\ indexes = {}
    /\ docs = {}
    /\ pending = [c \in Clients |-> NoDoc]
    /\ oplog = <<>>
    /\ nextId = 1

\* db.createUser({...})
CreateUser ==
    /\ mongoPc = "createUser"
    /\ users' = users \cup {[user |-> "test_gen_user",
                             pwd |-> "process.env.MONGO_PASSWORD",
                             roles |-> {[role |-> "readWrite", db |-> "test_gen_db"]}]}
    /\ mongoPc' = "createCollection"
    /\ UNCHANGED <<collections, indexes, docs, pending, oplog, nextId>>
    /\ UNCHANGED <<ciVars, uiVars>>

\* db.createCollection("test_patterns")
CreateCollection ==
    /\ mongoPc = "createCollection"
    /\ collections' = collections \cup {"test_patterns"}
    /\ mongoPc' = "createIndex"
    /\ UNCHANGED <<users, indexes, docs, pending, oplog, nextId>>
    /\ UNCHANGED <<ciVars, uiVars>>

\* db.test_patterns.createIndex(...)
CreateIndex ==
    /\ mongoPc = "createIndex"
    /\ indexes' = indexes \cup {[key |-> IndexKey, unique |-> IndexOptions.unique]}
    /\ mongoPc' = "done"
    /\ UNCHANGED <<users, collections, docs, pending, oplog, nextId>>
    /\ UNCHANGED <<ciVars, uiVars>>

\* Whether inserting doc would duplicate a key of a unique index.
UniqueViolation(doc) ==
    \E idx \in indexes :
        /\ idx.unique
        /\ \E d \in docs : d[idx.key] = doc[idx.key]

Issued == Len(oplog) + Cardinality({c \in Clients : pending[c] # NoDoc})

\* A client sends an insert.  Scripts in /docker-entrypoint-initdb.d run
\* before the server accepts clients, so requests arrive after the initializer.
InsertRequest(c) ==
    /\ mongoPc = "done"
    /\ pending[c] = NoDoc
    /\ Issued < MaxInserts
    /\ \E n \in PatternNames :
        pending' = [pending EXCEPT ![c] = [pattern_name |-> n]]
    /\ UNCHANGED <<mongoPc, users, collections, indexes, docs, oplog, nextId>>
    /\ UNCHANGED <<ciVars, uiVars>>

\* The server applies one pending insert atomically: the document is stored,
\* or the insert is rejected with a duplicate-key error (E11000).
ApplyInsert(c) ==
    /\ pending[c] # NoDoc
    /\ IF UniqueViolation(pending[c])
       THEN /\ oplog' = Append(oplog, [client |-> c, doc |-> pending[c], result |-> "E11000"])
            /\ UNCHANGED <<docs, nextId>>
       ELSE /\ docs' = docs \cup {[_id |-> nextId, pattern_name |-> pending[c].pattern_name]}
            /\ nextId' = nextId + 1
            /\ oplog' = Append(oplog, [client |-> c, doc |-> pending[c], result |-> "ok"])
    /\ pending' = [pending EXCEPT ![c] = NoDoc]
    /\ UNCHANGED <<mongoPc, users, collections, indexes>>
    /\ UNCHANGED <<ciVars, uiVars>>

MongoNext ==
    \/ CreateUser
    \/ CreateCollection
    \/ CreateIndex
    \/ \E c \in Clients : InsertRequest(c)
    \/ \E c \in Clients : ApplyInsert(c)

(***************************************************************************)
(* Placeholder UI                                                          *)
(***************************************************************************)

MaxRenders == 3

Element(tag, testid, classes, text, children) ==
    [tag |-> tag, testid |-> testid, classes |-> classes, text |-> text,
     children |-> children]

\* Props a caller could pass to the component.
PropsSamples == [title : {"", "Other", "Test Generation Platform"},
                 className : {"", "dark"}]

AppTitleFromProps(props) ==
    Element("main", "app-main", <<"min-h-screen", "bg-gray-100">>, "",
        << Element("div", "app-container", <<"container", "mx-auto", "px-4", "py-8">>, "",
            << Element("h1", "", <<"text-3xl", "font-bold">>,
                       IF props.title = "" THEN "Test Generation Platform" ELSE props.title,
                       <<>>) >>) >>)

\* function App() { return <main ...><div ...><h1 ...>...</h1></div></main>; }
App(props) ==
    Element("main", "app-main", <<"min-h-screen", "bg-gray-100">>, "",
        << Element("div", "app-container", <<"container", "mx-auto", "px-4", "py-8">>, "",
            << Element("h1", "", <<"text-3xl", "font-bold">>,
                       "Test Generation Platform", <<>>) >>) >>)

\* The elements of a tree, in document order.
RECURSIVE Elements(_)
RECURSIVE ElementsOfAll(_)
Elements(el) == <<el>> \o ElementsOfAll(el.children)
ElementsOfAll(els) ==
    IF els = <<>> THEN <<>> ELSE Elements(Head(els)) \o ElementsOfAll(Tail(els))

\* screen.getAllByTestId / getAllByRole('heading', {level}) / toHaveClass /
\* toHaveTextContent, over one mounted tree
GetAllByTestId(tree, id) == SelectSeq(Elements(tree), LAMBDA e : e.testid = id)
HeadingTag(level) == IF level = 1 THEN "h1" ELSE "h2"
GetAllByRoleHeading(tree, level) ==
    SelectSeq(Elements(tree), LAMBDA e : e.tag = HeadingTag(level))
HasClasses(el, tokens) ==
    \A t \in tokens : \E i \in 1..Len(el.classes) : el.classes[i] = t
TextContent(el) ==
    LET texts == SelectSeq(Elements(el), LAMBDA e : e.text # "")
    IN  [i \in 1..Len(texts) |-> texts[i].text]

UIInit == mounted = <<>>

\* render(<App {...props} />): a new root is mounted in document.body
Render ==
    /\ Len(mounted) < MaxRenders
    /\ \E props \in PropsSamples :
        mounted' = Append(mounted, [props |-> props, tree |-> App(props)])
    /\ UNCHANGED <<ciVars, mongoVars>>

\* Testing Library unmounts every root after each test.
Cleanup ==
    /\ mounted # <<>>
    /\ mounted' = <<>>
    /\ UNCHANGED <<ciVars, mongoVars>>

UINext == Render \/ Cleanup

(***************************************************************************)
(* Specifications                                                          *)
(***************************************************************************)

Init == CIInit /\ MongoInit /\ UIInit

\* One workflow run.
Spec == Init /\ [][CINext]_vars

\* One workflow run on runners that keep working: a job that can take a
\* step takes it.
FairSpec == Init /\ [][CINext]_vars /\ WF_vars(CINext)

IdleCI == CIInit /\ event = [name |-> "push", branch |-> "main", sha |-> "sha1"]
IdleInit == IdleCI /\ MongoInit /\ UIInit

\* The MongoDB container on its own.
SpecMongo == IdleInit /\ [][MongoNext]_vars

\* The component under its tests.
SpecUI == IdleInit /\ [][UINext]_vars

(***************************************************************************)
(* Properties                                                              *)
(***************************************************************************)

\* Outcome of a command in a job's log: "ok", "failed", or "none" when it
\* did not run.
OutcomeOf(job, cmd) ==
    LET ks == {k \in 1..Len(jlog[job]) : Units(job)[jlog[job][k].i].cmd = cmd}
    IN  IF ks = {} THEN "none" ELSE jlog[job][Min(ks)].outcome
Ran(job, cmd) == OutcomeOf(job, cmd) # "none"
Started(job) == status[job] \in {"init", "running", "success", "failure"}
PushToMain == event.name = "push" /\ event.branch = "main"

\* Every unit before index i ran and succeeded.
AllEarlierOk(job, i) ==
    \A j \in 1..(i - 1) :
        \E k \in 1..Len(jlog[job]) :
            jlog[job][k].i = j /\ jlog[job][k].outcome = "ok"

\* C1: the deploy job starts (and a release exists) only when both gate jobs
\* of the run succeeded and the event is a push to main; so never on a pull
\* request and never with a failed frontend gate.
C1_DeployOnlyAfterBothGatesOnMainPush ==
    (Started(Deploy) \/ jlog[Deploy] # <<>> \/ release # NoRelease)
        => /\ status[Backend] = "success"
           /\ status[Frontend] = "success"
           /\ PushToMain

C1_Witness_DeployRunning ==
    /\ status[Deploy] = "running"
    /\ Ran(Deploy, "actions/checkout")
    /\ PushToMain

\* C2: on a push to main with both gates green, once the deploy job has run
\* its release step there is a release named `Release <sha>` holding the
\* Markdown report, whose image line points at the badge the backend gate
\* uploaded in backend-coverage-report.
C2_ReleaseCreatedOnGreenMainPush ==
    ( /\ PushToMain
      /\ status[Backend] = "success"
      /\ status[Frontend] = "success"
      /\ Ran(Deploy, "softprops/action-gh-release") )
        => /\ release.name = <<"Release", event.sha>>
           /\ <<"coverage-report.md">> \in release.files
           /\ \E l \in 1..Len(release.body) :
                /\ release.body[l].kind = "img"
                /\ \E a \in artifacts :
                    /\ a.name = "backend-coverage-report"
                    /\ <<"coverage-badge.svg">> \in a.files
                    /\ release.body[l].src = <<a.name, "coverage-badge.svg">>

\* The parts of the uniqueness property.
C3_NoDuplicates ==
    \A d1, d2 \in docs : d1.pattern_name = d2.pattern_name => d1 = d2
C3_ExactlyOneSucceeds ==
    \A n \in PatternNames :
        LET done == {k \in 1..Len(oplog) : oplog[k].doc.pattern_name = n}
        IN  done # {} =>
                /\ Cardinality({k \in done : oplog[k].result = "ok"}) = 1
                /\ \A k \in done : oplog[k].result \in {"ok", "E11000"}
C3_RejectedLeavesCollection ==
    (Len(oplog') = Len(oplog) + 1 /\ oplog'[Len(oplog')].result = "E11000")
        => docs' = docs
\* C3: with the initializer done, test_patterns holds no two documents with
\* the same pattern_name; among the completed inserts carrying one
\* pattern_name exactly one succeeded and every other was rejected as a
\* duplicate; a rejected insert leaves the collection as it was.
C3_UniquePatternName ==
    /\ [](mongoPc = "done" => C3_NoDuplicates /\ C3_ExactlyOneSucceeds)
    /\ [][C3_RejectedLeavesCollection]_vars

C3_Witness_OneOkOneRejected ==
    /\ Len(oplog) >= 2
    /\ oplog[1].doc.pattern_name = oplog[2].doc.pattern_name
    /\ oplog[1].client # oplog[2].client
    /\ oplog[1].result = "ok"
    /\ oplog[2].result = "E11000"
    /\ Cardinality(docs) = 1

\* The backend gate's states, as the units that make them up.
BackendStateOf(cmd) ==
    CASE cmd \in {"pip install --upgrade pip", "pip install -r requirements.txt",
                  "pip install coverage-badge"} -> "install"
      [] cmd \in {"pip install safety", "safety check"} -> "security-scan"
      [] cmd \in {"flake8", "mypy", "black --check"} -> "lint/typecheck/format"
      [] cmd = "pytest" -> "test+coverage"
      [] cmd = "coverage-badge" -> "badge-generate"
      [] cmd = "actions/upload-artifact" -> "publish-artifacts"
      [] cmd = "codecov/codecov-action" -> "publish-artifacts"
      [] OTHER -> "setup"
BackendStateRank(st) ==
    CASE st = "setup" -> 0
      [] st = "install" -> 1
      [] st = "security-scan" -> 2
      [] st = "lint/typecheck/format" -> 3
      [] st = "test+coverage" -> 4
      [] st = "badge-generate" -> 5
      [] st = "publish-artifacts" -> 6

\* C4: the backend job's units run in the order install, security-scan,
\* lint/typecheck/format, test+coverage, badge-generate, publish-artifacts;
\* a unit runs only if every earlier unit succeeded, none runs twice, the
\* first failure fails the job and is the last unit run.
C4_BackendFailFastInOrder ==
    LET log == jlog[Backend]
        rank(k) == BackendStateRank(BackendStateOf(BackendUnits[log[k].i].cmd))
    IN  /\ \A k, l \in 1..Len(log) :
            k < l => log[k].i < log[l].i /\ rank(k) <= rank(l)
        /\ \A k \in 1..Len(log) : AllEarlierOk(Backend, log[k].i)
        /\ \A k \in 1..Len(log) : log[k].outcome = "failed" => k = Len(log)
        /\ Failed(log) => status[Backend] = "failure"
        /\ Ran(Backend, "pytest") =>
                \A c \in {"safety check", "flake8", "mypy", "black --check"} :
                    OutcomeOf(Backend, c) = "ok"

C4_Witness_LintFailureStopsJob ==
    /\ OutcomeOf(Backend, "safety check") = "ok"
    /\ OutcomeOf(Backend, "mypy") = "failed"
    /\ status[Backend] = "failure"
    /\ ~Ran(Backend, "pytest")

\* C5: the frontend build runs only if every unit before it in the job
\* succeeded; a run whose frontend gate failed earlier has no build output.
C5_BuildOnlyAfterAllPriorSteps ==
    /\ Ran(Frontend, "npm run build") =>
            AllEarlierOk(Frontend, Len(FrontendUnits))
    /\ <<"frontend", "build">> \in files[Frontend] =>
            AllEarlierOk(Frontend, Len(FrontendUnits))
    /\ (\E k \in 1..Len(jlog[Frontend]) :
            /\ jlog[Frontend][k].i < Len(FrontendUnits)
            /\ jlog[Frontend][k].outcome = "failed")
        => /\ ~Ran(Frontend, "npm run build")
           /\ <<"frontend", "build">> \notin files[Frontend]

C5_Witness_BuildRan ==
    /\ OutcomeOf(Frontend, "npm run build") = "ok"
    /\ <<"frontend", "build">> \in files[Frontend]

\* C6: for Postgres and MongoDB alike, the tests (the step that connects to
\* the datastores) run only after the service's health check reported
\* healthy, and a service that ended unhealthy fails the job with no test run.
C6_HealthGatesConsumers ==
    \A s \in Services :
        /\ Ran(Backend, "pytest") => health[s] = "healthy"
        /\ (health[s] = "unhealthy" /\ status[Backend] # "init")
                => status[Backend] = "failure" /\ jlog[Backend] = <<>>

OtherGate(g) == IF g = Backend THEN Frontend ELSE Backend

\* The parts of the independence property.
C7_GateNeverSkipped == \A g \in Gates : status[g] # "skipped"
C7_GateRunsToItsEnd ==
    \A g \in Gates : (triggered = "yes") ~> (status[g] \in {"success", "failure"})
C7_FailureWithholdsRelease ==
    (\E g \in Gates : status[g] = "failure")
        => status[Deploy] \in {"waiting", "skipped"} /\ jlog[Deploy] = <<>>
C7_StepTouchesOwnJobOnly ==
    \A g \in Gates :
        (jlog'[g] # jlog[g] \/ status'[g] # status[g])
            => /\ jlog'[OtherGate(g)] = jlog[OtherGate(g)]
               /\ status'[OtherGate(g)] = status[OtherGate(g)]
               /\ measured'[OtherGate(g)] = measured[OtherGate(g)]
               /\ files'[OtherGate(g)] = files[OtherGate(g)]

\* C7: the two gates are independent: a step of one changes nothing of the
\* other, a gate is never skipped and, once the run is triggered, ends in its
\* own success or failure whatever the sibling did, and a failed gate only
\* keeps the deploy job from running.
C7_GatesIndependent ==
    /\ [](C7_GateNeverSkipped /\ C7_FailureWithholdsRelease)
    /\ [][C7_StepTouchesOwnJobOnly]_vars
    /\ C7_GateRunsToItsEnd

C7_Witness_SiblingSurvivesFailure ==
    /\ status[Backend] = "failure"
    /\ Failed(jlog[Backend])
    /\ status[Frontend] = "success"
    /\ status[Deploy] = "skipped"

\* C8: once pytest has run with every test passing, it failed exactly when
\* coverage was under 90.0% (89.9% fails, 90.0% passes); a job failing there
\* is failed, has no badge and has uploaded no backend coverage artifact.
C8_BackendCoverageGate ==
    LET m == measured[Backend]
        o == OutcomeOf(Backend, "pytest")
    IN  Ran(Backend, "pytest") =>
            /\ m.testsPass => (o = "failed" <=> m.cov < 900)
            /\ (m.testsPass /\ m.cov = 899) => o = "failed"
            /\ (m.testsPass /\ m.cov = 900) => o = "ok"
            /\ o = "failed" =>
                    /\ status[Backend] = "failure"
                    /\ <<"coverage-badge.svg">> \notin files[Backend]
                    /\ ~Ran(Backend, "coverage-badge")
                    /\ ~\E a \in artifacts : a.name = "backend-coverage-report"

C8_Witness_JustUnderThreshold ==
    /\ Ran(Backend, "pytest")
    /\ measured[Backend].testsPass
    /\ measured[Backend].cov = 899
    /\ status[Backend] = "failure"

\* C9: in CI the frontend test step passes exactly when the tests pass and
\* each of branches, functions, lines and statements is at least 90%; a
\* metric between 80% and 90% fails it.
C9_FrontendThresholdIs90 ==
    LET m == measured[Frontend]
        o == OutcomeOf(Frontend, "npm test")
    IN  Ran(Frontend, "npm test") =>
            (o = "ok" <=> (m.testsPass /\ \A x \in Metrics : m.cov[x] >= 90))

C9_Witness_Between80And90Fails ==
    /\ Ran(Frontend, "npm test")
    /\ measured[Frontend].testsPass
    /\ measured[Frontend].cov["branches"] = 89
    /\ \A x \in Metrics \ {"branches"} : measured[Frontend].cov[x] = 90
    /\ status[Frontend] = "failure"

\* What the component is to render, read off one mounted tree.
C10_TreeAsSpecified(t) ==
    LET mains == GetAllByTestId(t, "app-main")
        conts == GetAllByTestId(t, "app-container")
        heads == GetAllByRoleHeading(t, 1)
    IN  /\ Len(mains) = 1
        /\ mains[1] = t
        /\ HasClasses(t, {"min-h-screen", "bg-gray-100"})
        /\ Len(conts) = 1
        /\ Len(t.children) = 1
        /\ t.children[1] = conts[1]
        /\ HasClasses(conts[1], {"container", "mx-auto", "px-4", "py-8"})
        /\ Len(heads) = 1
        /\ Len(GetAllByRoleHeading(conts[1], 1)) = 1
        /\ TextContent(heads[1]) = <<"Test Generation Platform">>
\* C10: every mounted render of App is the same tree: root `app-main` with
\* classes min-h-screen bg-gray-100, holding one `app-container` with classes
\* container mx-auto px-4 py-8, holding the only level-1 heading, whose text
\* is exactly "Test Generation Platform"; whatever the props and whatever was
\* rendered before.
C10_AppRendersFixedTree ==
    /\ \A i \in 1..Len(mounted) : C10_TreeAsSpecified(mounted[i].tree)
    /\ \A i, j \in 1..Len(mounted) : mounted[i].tree = mounted[j].tree

C10_Witness_RendersWithDifferentProps ==
    /\ Len(mounted) >= 2
    /\ mounted[1].props.title = ""
    /\ mounted[2].props.title = "Other"
    /\ mounted[2].props.className = "dark"
====
